---- MODULE Spec2Model ----
(***************************************************************************)
(* The backtesting engine of src/src/backtester.py (class Backtester) as   *)
(* it is driven by src/app.py: the price table is loaded, checked for      *)
(* emptiness, normalised by Backtester.__init__ and then run_strategy      *)
(* resolves the rebalance dates, selects the holdings, projects them on    *)
(* every trading date, computes the daily returns and reduces them to the  *)
(* per-day table and the stats record.                                     *)
(*                                                                         *)
(* Dates are day ordinals of a scaled-down calendar (DaysPerMonth days a   *)
(* month, MonthsPerQuarter months a quarter).  A float is a pair <<n, d>>: *)
(* the rational n/d in lowest terms with d > 0, or NaN == <<0, 0>>.        *)
(* Arithmetic is exact (no rounding).  Prices are positive ("adj close     *)
(* prices", backtester.py line 8) or NaN (missing).                        *)
(***************************************************************************)
EXTENDS Integers, Sequences, FiniteSets

\* ---------------------------------------------------------------- bounds
NumDays == 8
DaysPerMonth == 2
MaxDates == 4
MaxTopN == 2
MaxPrice == 2

\* ------------------------------------------------------------- constants
MonthsPerQuarter == 3
ann_factor == 252

Tickers == <<"A", "B", "C">>
Days == 1..NumDays

\* ---------------------------------------------------------------- floats
NaN == <<0, 0>>
\* Python's None, as a value no float takes.
None == <<0, -1>>
Zero == <<0, 1>>
One == <<1, 1>>

IsNaN(x) == x[2] = 0

Abs(n) == IF n < 0 THEN -n ELSE n

RECURSIVE GCD(_, _)
GCD(a, b) == IF b = 0 THEN a ELSE GCD(b, a % b)

\* n/d in lowest terms, d > 0.
Rat(n, d) ==
    LET g == GCD(Abs(n), d)
    IN  <<n \div g, d \div g>>

\* The operands are reduced before they are multiplied, which keeps the
\* intermediate integers small.
FAdd(x, y) ==
    IF IsNaN(x) \/ IsNaN(y) THEN NaN
    ELSE LET g == GCD(x[2], y[2])
         IN  Rat(x[1] * (y[2] \div g) + y[1] * (x[2] \div g),
                 (x[2] \div g) * y[2])
FNeg(x) == IF IsNaN(x) THEN NaN ELSE <<-x[1], x[2]>>
FSub(x, y) == FAdd(x, FNeg(y))
FMul(x, y) ==
    IF IsNaN(x) \/ IsNaN(y) THEN NaN
    ELSE LET g == GCD(Abs(x[1]), y[2])
             h == GCD(Abs(y[1]), x[2])
         IN  <<(x[1] \div g) * (y[1] \div h), (x[2] \div h) * (y[2] \div g)>>
\* x / y for y > 0 (prices, counts, running maxima and variances that
\* divide are positive) or y NaN.
FDiv(x, y) == IF IsNaN(x) \/ IsNaN(y) THEN NaN
              ELSE FMul(x, <<y[2], y[1]>>)
\* Comparisons with NaN are false, as in IEEE 754.
FLt(x, y) == ~IsNaN(x) /\ ~IsNaN(y) /\ x[1] * y[2] < y[1] * x[2]
FLe(x, y) == ~IsNaN(x) /\ ~IsNaN(y) /\ x[1] * y[2] <= y[1] * x[2]
FGt(x, y) == FLt(y, x)

\* -------------------------------------------------------------- sequences
Range(s) == {s[i] : i \in DOMAIN s}

SetMax(S) == CHOOSE m \in S : \A x \in S : x <= m
SetMin(S) == CHOOSE m \in S : \A x \in S : m <= x
Min2(a, b) == IF a < b THEN a ELSE b

RECURSIVE Ascending(_)
Ascending(S) == IF S = {} THEN <<>>
                ELSE <<SetMin(S)>> \o Ascending(S \ {SetMin(S)})

Reverse(s) == [i \in 1..Len(s) |-> s[Len(s) + 1 - i]]

\* The sum of the floats f[i], i in lo..hi (NaN if any is NaN).
RECURSIVE FSum(_, _, _)
FSum(f, lo, hi) == IF hi < lo THEN Zero ELSE FAdd(FSum(f, lo, hi - 1), f[hi])

\* The product of the floats f[i], i in lo..hi.
RECURSIVE FProd(_, _, _)
FProd(f, lo, hi) == IF hi < lo THEN One ELSE FMul(FProd(f, lo, hi - 1), f[hi])

\* ------------------------------------------------------------ price table
\* A table is [index: sequence of dates, columns: sequence of tickers,
\* data: ticker -> sequence of floats aligned with index].

\* DataFrame.empty: an axis of length 0.
IsEmpty(df) == Len(df.index) = 0 \/ Len(df.columns) = 0

\* DataFrame.sort_index(): the rows in ascending date order.
sort_index(df) ==
    LET sorted == Ascending(Range(df.index))
        pos(k) == CHOOSE i \in DOMAIN df.index : df.index[i] = sorted[k]
    IN  [index |-> sorted,
         columns |-> df.columns,
         data |-> [t \in DOMAIN df.data |->
                     [k \in 1..Len(sorted) |-> df.data[t][pos(k)]]]]

\* DataFrame.ffill(): a missing value takes the last observed one above it.
ffill(df) ==
    LET seen(t, k) == {j \in 1..k : ~IsNaN(df.data[t][j])}
    IN  [df EXCEPT !.data =
           [t \in DOMAIN df.data |->
              [k \in 1..Len(df.index) |->
                 IF seen(t, k) = {} THEN NaN
                 ELSE df.data[t][SetMax(seen(t, k))]]]]

\* DataFrame.dropna(axis=1, how='all'): the columns with some value.
dropna_all(df) ==
    LET keep(t) == \E k \in 1..Len(df.index) : ~IsNaN(df.data[t][k])
        cols == SelectSeq(df.columns, keep)
    IN  [index |-> df.index,
         columns |-> cols,
         data |-> [t \in Range(cols) |-> df.data[t]]]

\* Backtester.__init__: self.prices.
Normalize(df) == dropna_all(ffill(sort_index(df)))

\* ------------------------------------------------------------ run_strategy
fillna0(x) == IF IsNaN(x) THEN Zero ELSE x

\* pct_change without the "- 1": the price ratio.
pct_change_Ratio(price) ==
    [t \in DOMAIN price.data |->
       [k \in 1..Len(price.index) |->
          IF k = 1 THEN NaN
          ELSE FDiv(price.data[t][k], price.data[t][k - 1])]]

\* price.pct_change(): price[k]/price[k-1] - 1, NaN on the first row and
\* wherever a price is missing.
pct_change(price) ==
    [t \in DOMAIN price.data |->
       [k \in 1..Len(price.index) |->
          IF k = 1 THEN NaN
          ELSE FSub(FDiv(price.data[t][k], price.data[t][k - 1]), One)]]

\* returns = price.pct_change().fillna(0)
Returns(price) ==
    LET pc0 == pct_change(price)
    IN  [t \in DOMAIN pc0 |-> [k \in DOMAIN pc0[t] |-> fillna0(pc0[t][k])]]

\* The calendar period of a resampling rule, in days.
PeriodLen(rule) == IF rule = "M" THEN DaysPerMonth
                   ELSE DaysPerMonth * MonthsPerQuarter

\* The bin labelled by its first calendar day (the rules "MS" / "QS").
PeriodStart(rule, d) == ((d - 1) \div PeriodLen(rule)) * PeriodLen(rule) + 1

\* The label pandas gives the bin of date d under "M" / "Q": the last
\* calendar day of the month / quarter that holds d.
PeriodEnd(rule, d) == ((d - 1) \div PeriodLen(rule) + 1) * PeriodLen(rule)

\* price.resample(rule).first().index: one label for every period from the
\* first date's to the last date's, the periods without a trading day too.
resample_index(index, rule) ==
    LET first == PeriodEnd(rule, index[1])
        last == PeriodEnd(rule, index[Len(index)])
        n == (last - first) \div PeriodLen(rule) + 1
    IN  [j \in 1..n |-> first + (j - 1) * PeriodLen(rule)]

\* get_indexer with method="backfill": the first date >= d.
get_indexer_backfill(index, d) ==
    IF \E p \in DOMAIN index : index[p] >= d
    THEN Cardinality({p \in DOMAIN index : index[p] < d}) + 1
    ELSE 0

\* price.index.get_indexer([d], method="pad")[0]: the position of the last
\* date <= d; positions count from 1 here and 0 is the code's -1.
get_indexer_pad(index, d) == Cardinality({p \in DOMAIN index : index[p] <= d})

\* scores = {t: valuation_scores.get(t, (nan, None, None))[0] for t in columns}
Scores(vs, columns) ==
    [t \in Range(columns) |-> IF t \in DOMAIN vs THEN vs[t] ELSE NaN]

\* avail = price.loc[d_eff].dropna().index.tolist(), p the row of d_eff.
Avail(price, p) ==
    LET has(t) == ~IsNaN(price.data[t][p])
    IN  SelectSeq(price.columns, has)

\* sorted(seq, key=scores.get): ascending and stable.
SortedByScore(seq, sc) ==
    LET before(a, b) == \/ FLt(sc[seq[a]], sc[seq[b]])
                        \/ (sc[seq[a]] = sc[seq[b]] /\ a < b)
        rank(b) == Cardinality({a \in DOMAIN seq : before(a, b)}) + 1
    IN  [r \in 1..Len(seq) |-> seq[CHOOSE b \in DOMAIN seq : rank(b) = r]]

\* ranked = sorted([a for a in avail if a in scores and not isna(scores[a])])
Ranked(price, p, sc) ==
    LET scored(a) == a \in DOMAIN sc /\ ~IsNaN(sc[a])
    IN  SortedByScore(SelectSeq(Avail(price, p), scored), sc)

\* The slice taken one too long: ranked[:top_n + 1].
Selected_OneTooMany(price, p, sc, n) ==
    LET ranked == Ranked(price, p, sc)
    IN  SubSeq(ranked, 1, Min2(n + 1, Len(ranked)))

\* selected = ranked[:top_n]
Selected(price, p, sc, n) ==
    LET ranked == Ranked(price, p, sc)
    IN  SubSeq(ranked, 1, Min2(n, Len(ranked)))

\* Series.mean() of a sequence of floats, NaN skipped; NaN when none is left.
Mean(f) ==
    LET g == SelectSeq(f, LAMBDA x : ~IsNaN(x))
    IN  IF Len(g) = 0 THEN NaN ELSE FDiv(FSum(g, 1, Len(g)), <<Len(g), 1>>)

\* returns.loc[dt, sel].mean(), k the row of dt.
DayReturn(returns, sel, k) == Mean([j \in 1..Len(sel) |-> returns[sel[j]][k]])

\* bench_ret = returns.mean(axis=1)
BenchRet(price, returns) ==
    [k \in 1..Len(price.index) |-> DayReturn(returns, price.columns, k)]

\* Returns added up instead of compounded: 1 + r.cumsum().
CumProd_Sum(r) ==
    [k \in DOMAIN r |-> IF IsNaN(r[k]) THEN NaN ELSE FAdd(One, FSum(r, 1, k))]

\* (1 + r).cumprod(): NaN stays NaN and is skipped by the running product.
CumProd(r) ==
    LET f == [k \in DOMAIN r |-> IF IsNaN(r[k]) THEN One ELSE FAdd(One, r[k])]
    IN  [k \in DOMAIN r |-> IF IsNaN(r[k]) THEN NaN ELSE FProd(f, 1, k)]

\* Series.cummax(): the running maximum, NaN skipped.
CumMax(c) ==
    [k \in DOMAIN c |->
       IF IsNaN(c[k]) THEN NaN
       ELSE CHOOSE m \in {c[j] : j \in 1..k} :
              ~IsNaN(m) /\ \A j \in 1..k : IsNaN(c[j]) \/ FLe(c[j], m)]

\* (cum - rolling_max) / rolling_max
Drawdown(c) ==
    LET rm == CumMax(c)
    IN  [k \in DOMAIN c |-> FDiv(FSub(c[k], rm[k]), rm[k])]

\* Series.min(), NaN skipped.
SeriesMin(f) ==
    LET vals == {f[k] : k \in DOMAIN f} \ {NaN}
    IN  IF vals = {} THEN NaN
        ELSE CHOOSE m \in vals : \A x \in vals : FLe(m, x)

\* Series.std() squared (ddof = 1): NaN for fewer than two values.
Variance(f) ==
    LET n == Len(f)
        mu == Mean(f)
        sq == [k \in DOMAIN f |-> FMul(FSub(f[k], mu), FSub(f[k], mu))]
    IN  IF n < 2 THEN NaN ELSE FDiv(FSum(sq, 1, n), <<n - 1, 1>>)

\* The conversion left out: float(x).
NotNaOrNone_Float(x) == x

\* float(x) if pd.notna(x) else None
NotNaOrNone(x) == IF IsNaN(x) THEN None ELSE x

\* ------------------------------------------------------------------ state
VARIABLES
    pc,                \* where the run stands
    price_df,          \* app.py: the loaded price table
    valuation_scores,  \* ticker -> score (the [0] of the scores tuple)
    top_n,
    rebalance,         \* "M" or "Q" (app.py line 139)
    risk_free_annual,
    prices,            \* Backtester.prices
    rebal_dates,       \* run_strategy: the resampled labels
    k,                 \* position of the running loop
    holdings_map,      \* resolved rebalance date -> selection
    holdings_series,   \* row -> holdings
    current,
    last_reb_date,     \* 0 is None
    port_ret,
    df,                \* the per-day table, <<>> until returned
    stats              \* the stats record, <<>> until returned

vars == <<pc, price_df, valuation_scores, top_n, rebalance, risk_free_annual,
          prices, rebal_dates, k, holdings_map, holdings_series, current,
          last_reb_date, port_ret, df, stats>>

inputs == <<price_df, valuation_scores, top_n, rebalance, risk_free_annual>>

\* A cell of pd.Series(index=price.index, dtype=object) never assigned.
Unset == <<"NaN">>

EmptyMap == [d \in {} |-> <<>>]
NoTable == [index |-> <<>>, columns |-> <<>>, data |-> [t \in {} |-> <<>>]]

\* ----------------------------------------------------------------- inputs
Price(n) == <<n, 1>>
Cells == {NaN} \cup {Price(n) : n \in 1..MaxPrice}
RiskFreeRates == {Zero, <<1, 25>>}
ScoreValues == {NaN, <<1, 1>>, <<2, 1>>}

\* Every dict of scores over a subset of the tickers.
ScoreMaps(T) == UNION {[S -> ScoreValues] : S \in SUBSET T}

\* The first day a ticker is quoted: every ticker from the first day on, or
\* one more ticker each month.
Listings == {[t \in Range(Tickers) |-> 1],
             [t \in Range(Tickers) |->
                CASE t = "A" -> 1
                  [] t = "B" -> DaysPerMonth + 1
                  [] OTHER -> 2 * DaysPerMonth + 1]}

\* A price that moves from day to day, shifted from ticker to ticker.
Quote(t, d) == Price(((d + (IF t = "B" THEN 1 ELSE 0)) % MaxPrice) + 1)

\* Tables over a free trading calendar, rows ascending or descending.
CalendarTables ==
    {[index |-> idx,
      columns |-> Tickers,
      data |-> [t \in Range(Tickers) |->
                  [r \in DOMAIN idx |->
                     IF idx[r] >= first[t] THEN Quote(t, idx[r]) ELSE NaN]]]
       : idx \in UNION {{Ascending(S), Reverse(Ascending(S))}
                          : S \in {S \in SUBSET Days :
                                     Cardinality(S) \in 1..MaxDates}},
         first \in Listings}

\* Tables whose cells are free; cols and idx fixed.
FreeTables(cols, idx, cells) ==
    {[index |-> idx, columns |-> cols, data |-> d]
       : d \in [Range(cols) -> [DOMAIN idx -> cells]]}

FixedScores == [t \in Range(Tickers) |->
                  CASE t = "A" -> <<3, 1>> [] t = "B" -> <<2, 1>>
                    [] OTHER -> <<1, 1>>]

InitCalendar ==
    /\ price_df \in CalendarTables
    /\ valuation_scores = FixedScores
    /\ top_n \in 1..MaxTopN
    /\ rebalance \in {"M", "Q"}
    /\ risk_free_annual \in RiskFreeRates

InitSelection ==
    /\ price_df \in FreeTables(Tickers, <<1, DaysPerMonth + 1>>, {NaN, Price(1)})
    /\ valuation_scores \in ScoreMaps(Range(Tickers))
    /\ top_n \in 1..MaxTopN
    /\ rebalance = "M"
    /\ risk_free_annual = <<1, 25>>

InitPrices ==
    /\ price_df \in FreeTables(<<"A", "B">>, <<2, 3, 4>>, Cells)
    /\ valuation_scores = [t \in {"A", "B"} |-> FixedScores[t]]
    /\ top_n \in 1..MaxTopN
    /\ rebalance = "M"
    /\ risk_free_annual = <<1, 25>>

\* load_yfinance / load_csv found nothing: pd.DataFrame().
InitNoData ==
    /\ price_df = NoTable
    /\ valuation_scores = EmptyMap
    /\ top_n \in 1..MaxTopN
    /\ rebalance \in {"M", "Q"}
    /\ risk_free_annual = <<1, 25>>

Init ==
    /\ pc = "loaded"
    /\ \/ InitCalendar
       \/ InitSelection
       \/ InitPrices
       \/ InitNoData
    /\ prices = NoTable
    /\ rebal_dates = <<>>
    /\ k = 0
    /\ holdings_map = EmptyMap
    /\ holdings_series = <<>>
    /\ current = <<>>
    /\ last_reb_date = 0
    /\ port_ret = <<>>
    /\ df = <<>>
    /\ stats = <<>>

\* ---------------------------------------------------------------- actions
\* app.py lines 101-103: no rows or no columns, the script stops.
Stop ==
    /\ pc = "loaded"
    /\ IsEmpty(price_df)
    /\ pc' = "stopped"
    /\ UNCHANGED <<inputs, prices, rebal_dates, k, holdings_map,
                   holdings_series, current, last_reb_date, port_ret, df, stats>>

\* app.py line 140: bt = Backtester(price_df).
Construct ==
    /\ pc = "loaded"
    /\ ~IsEmpty(price_df)
    /\ prices' = Normalize(price_df)
    /\ pc' = "constructed"
    /\ UNCHANGED <<inputs, rebal_dates, k, holdings_map, holdings_series,
                   current, last_reb_date, port_ret, df, stats>>

\* run_strategy lines 20-29, up to the first loop.
RunStart ==
    /\ pc = "constructed"
    /\ rebal_dates' = resample_index(prices.index, rebalance)
    /\ holdings_map' = EmptyMap
    /\ k' = 1
    /\ pc' = "rebalance"
    /\ UNCHANGED <<inputs, prices, holdings_series, current, last_reb_date,
                   port_ret, df, stats>>

\* The effective date of label d (lines 33-40): 0 when the label is skipped.
d_eff(index, d) ==
    IF d \notin Range(index)
    THEN IF get_indexer_pad(index, d) = 0 THEN 0
         ELSE index[get_indexer_pad(index, d)]
    ELSE d

\* holdings_map after the loop body (lines 30-45) has run for label d.
Rebalanced(hm, price, sc, n, d) ==
    LET e == d_eff(price.index, d)
        p == CHOOSE q \in DOMAIN price.index : price.index[q] = e
    IN  IF e = 0 THEN hm
        ELSE [r \in DOMAIN hm \cup {e} |->
                IF r = e THEN Selected(price, p, sc, n) ELSE hm[r]]

\* One pass of the loop of lines 30-45.
RebalanceStep ==
    /\ pc = "rebalance"
    /\ k <= Len(rebal_dates)
    /\ holdings_map' = Rebalanced(holdings_map, prices,
                                  Scores(valuation_scores, prices.columns),
                                  top_n, rebal_dates[k])
    /\ IF k = Len(rebal_dates)
       THEN /\ pc' = "fill"
            /\ k' = 1
            /\ holdings_series' = [p \in DOMAIN prices.index |-> Unset]
       ELSE /\ pc' = pc
            /\ k' = k + 1
            /\ UNCHANGED holdings_series
    /\ UNCHANGED <<inputs, prices, rebal_dates, current, last_reb_date,
                   port_ret, df, stats>>

\* The comparison made strict: r < dt.
ValidReb_Strict(hm, dt) == {r \in DOMAIN hm : r < dt}

\* valid_reb = [r for r in holdings_map.keys() if r <= dt]
ValidReb(hm, dt) == {r \in DOMAIN hm : r <= dt}

\* last_reb_date after the loop body of lines 51-57 has run for date dt.
LastRebDate(hm, last, dt) ==
    IF ValidReb(hm, dt) # {} THEN SetMax(ValidReb(hm, dt)) ELSE last

\* The earliest rebalance date taken for the latest: min(valid_reb).
Current_Earliest(hm, cur, dt) ==
    IF {r \in DOMAIN hm : r <= dt} # {}
    THEN hm[SetMin({r \in DOMAIN hm : r <= dt})] ELSE cur

\* current after the loop body of lines 51-57 has run for date dt.
Current(hm, cur, dt) ==
    IF ValidReb(hm, dt) # {} THEN hm[SetMax(ValidReb(hm, dt))] ELSE cur

\* One pass of the loop of lines 51-57.
FillStep ==
    /\ pc = "fill"
    /\ k <= Len(prices.index)
    /\ last_reb_date' = LastRebDate(holdings_map, last_reb_date, prices.index[k])
    /\ current' = Current(holdings_map, current, prices.index[k])
    /\ holdings_series' = [holdings_series EXCEPT ![k] = current']
    /\ IF k = Len(prices.index)
       THEN pc' = "returns" /\ k' = 1
       ELSE pc' = pc /\ k' = k + 1
    /\ UNCHANGED <<inputs, prices, rebal_dates, holdings_map, port_ret, df, stats>>

\* The value appended to port_ret for row p (lines 63-69).
PortRet(returns, sel, p) ==
    IF sel = <<>> THEN Zero ELSE DayReturn(returns, sel, p)

\* One pass of the loop of lines 62-69.
ReturnStep ==
    /\ pc = "returns"
    /\ k <= Len(prices.index)
    /\ port_ret' = Append(port_ret, PortRet(Returns(prices), holdings_series[k], k))
    /\ IF k = Len(prices.index)
       THEN pc' = "stats" /\ k' = 0
       ELSE pc' = pc /\ k' = k + 1
    /\ UNCHANGED <<inputs, prices, rebal_dates, holdings_map, holdings_series,
                   current, last_reb_date, df, stats>>

\* port_ret = pd.Series(port_ret, index=price.index).fillna(0)
PortRetSeries(pr) == [p \in DOMAIN pr |-> fillna0(pr[p])]

\* ann_return (line 77) is cum[-1] ** (ann_factor / len) - 1, which is no
\* rational: it is kept as the total return cum[-1] - 1 it is the root of
\* (NaN when it is NaN, of the same sign).
AnnReturn(cum) ==
    IF Len(cum) > 0 THEN FSub(cum[Len(cum)], One) ELSE NaN

\* ann_vol (line 78) is std * sqrt(ann_factor), kept as its square.
AnnVol2(pr) == FMul(Variance(pr), <<ann_factor, 1>>)

\* sharpe (lines 80-83), kept as its square with its sign; std > 0 is
\* decided on the variance.
Sharpe(pr, rf) ==
    IF FGt(Variance(pr), Zero)
    THEN LET e == FSub(FMul(Mean(pr), <<ann_factor, 1>>), rf)
             sq == FDiv(FMul(e, e), AnnVol2(pr))
         IN  IF FLt(e, Zero) THEN FNeg(sq) ELSE sq
    ELSE NaN

\* The stats record (lines 102-108).
Stats(pr, rf) ==
    LET cum_port == CumProd(pr)
    IN  [annual_return |-> NotNaOrNone(AnnReturn(cum_port)),
         annual_vol |-> NotNaOrNone(AnnVol2(pr)),
         sharpe |-> NotNaOrNone(Sharpe(pr, rf)),
         max_drawdown |-> NotNaOrNone(SeriesMin(Drawdown(cum_port))),
         final_cum_return |-> IF Len(cum_port) > 0 THEN cum_port[Len(cum_port)]
                              ELSE None]

\* The per-day table (lines 92-100).
Frame(price, pr, hs) ==
    LET bench_ret == BenchRet(price, Returns(price))
    IN  [portfolio_return |-> pr,
         benchmark_return |-> bench_ret,
         cum_portfolio |-> CumProd(pr),
         cum_benchmark |-> CumProd(bench_ret),
         holdings |-> hs,
         portfolio_drawdown |-> Drawdown(CumProd(pr)),
         benchmark_drawdown |-> Drawdown(CumProd(bench_ret))]

\* Lines 71-109: the series, the stats and the return.
Finish ==
    /\ pc = "stats"
    /\ port_ret' = PortRetSeries(port_ret)
    /\ df' = Frame(prices, port_ret', holdings_series)
    /\ stats' = Stats(port_ret', risk_free_annual)
    /\ pc' = "done"
    /\ UNCHANGED <<inputs, prices, rebal_dates, k, holdings_map, holdings_series,
                   current, last_reb_date>>

Next ==
    \/ Stop
    \/ Construct
    \/ RunStart
    \/ RebalanceStep
    \/ FillStep
    \/ ReturnStep
    \/ Finish

Spec == Init /\ [][Next]_vars

\* ----------------------------------------------------------------- claims
Done == pc = "done"
Index == prices.index
Rows == DOMAIN prices.index
Keys == DOMAIN holdings_map
RowOf(d) == CHOOSE p \in Rows : Index[p] = d

\* The labels the first loop has been through.
Processed ==
    IF pc = "rebalance" THEN 1..(k - 1)
    ELSE IF pc \in {"fill", "returns", "stats", "done"} THEN DOMAIN rebal_dates
    ELSE {}

\* The calendar period (month or quarter) of day d.
PeriodOf(d) ==
    (d - 1) \div (IF rebalance = "M" THEN DaysPerMonth
                  ELSE DaysPerMonth * MonthsPerQuarter)

\* The simple return of ticker t on row p, 0 where it is undefined.
SimpleRet(t, p) ==
    IF p = 1 \/ IsNaN(prices.data[t][p]) \/ IsNaN(prices.data[t][p - 1])
    THEN Zero
    ELSE LET a == prices.data[t][p - 1]
             b == prices.data[t][p]
         IN  Rat((b[1] * a[2] - a[1] * b[2]) * a[2], a[2] * b[2] * a[1])

\* C1: in the returned table holdings change only on resolved rebalance
\* dates: two trading dates with no key of holdings_map after the first and
\* up to the second have the same holdings.
C1_HoldingsStepFunction ==
    Done => \A a, b \in Rows :
              (a < b /\ ~\E r \in Keys : Index[a] < r /\ r <= Index[b])
                => df.holdings[a] = df.holdings[b]

\* A held basket is carried over a date that is no rebalance date, and is
\* changed by a later rebalance.
C1_Witness ==
    /\ Done
    /\ \E a, b, c \in Rows :
         /\ a < b /\ b < c
         /\ ~\E r \in Keys : Index[a] < r /\ r <= Index[b]
         /\ df.holdings[a] # <<>>
         /\ df.holdings[b] = df.holdings[a]
         /\ df.holdings[c] # df.holdings[b]

\* C2: every stored selection has at most top_n tickers, each with a score
\* that is present and not NaN and a price that is not NaN on that date.
C2_SelectionBound ==
    \A r \in Keys :
      /\ Len(holdings_map[r]) <= top_n
      /\ \A j \in DOMAIN holdings_map[r] :
           LET t == holdings_map[r][j]
           IN  /\ t \in DOMAIN valuation_scores
               /\ ~IsNaN(valuation_scores[t])
               /\ t \in Range(prices.columns)
               /\ ~IsNaN(prices.data[t][RowOf(r)])

\* A selection cut to top_n although one more ticker qualified, on a date
\* where a priced ticker has no entry in the score map.
C2_Witness ==
    \E r \in Keys :
      /\ Len(holdings_map[r]) = top_n
      /\ \E t \in Range(prices.columns) \ Range(holdings_map[r]) :
           /\ ~IsNaN(prices.data[t][RowOf(r)])
           /\ t \in DOMAIN valuation_scores
           /\ ~IsNaN(valuation_scores[t])
      /\ \E u \in Range(prices.columns) :
           /\ ~IsNaN(prices.data[u][RowOf(r)])
           /\ u \notin DOMAIN valuation_scores

\* C3 as stated: every rebalance date is the first trading day of its
\* calendar period, and the first trading date is a rebalance date.
C3_FirstTradingDay ==
    Done => /\ \A e \in Keys : \A x \in Range(Index) :
                 PeriodOf(x) = PeriodOf(e) => e <= x
            /\ Index[1] \in Keys

\* C3 as amended: every rebalance date is the last trading day present in
\* the index of its calendar period, every period with a trading day has
\* one, and the last trading date of the table is a rebalance date.
C3_LastTradingDay ==
    Done => /\ \A e \in Keys : \A x \in Range(Index) :
                 PeriodOf(x) = PeriodOf(e) => x <= e
            /\ \A x \in Range(Index) : \E e \in Keys : PeriodOf(e) = PeriodOf(x)
            /\ Index[Len(Index)] \in Keys

\* A quarterly run and a monthly one rebalance on a day that is not the
\* first trading day of its period, and not on the first trading date.
C3_Witness ==
    /\ Done
    /\ rebalance = "Q"
    /\ Cardinality(Keys) >= 2
    /\ Index[1] \notin Keys
    /\ \E e \in Keys : \E x \in Range(Index) : PeriodOf(x) = PeriodOf(e) /\ x < e

\* C4: on every trading date the portfolio return is the arithmetic mean of
\* the simple returns of exactly the tickers held that date, and 0 when
\* nothing is held.
C4_PortfolioReturnIsMean ==
    Done => \A p \in Rows :
              LET h == df.holdings[p]
                  r == [j \in DOMAIN h |-> SimpleRet(h[j], p)]
              IN  df.portfolio_return[p] =
                    IF h = <<>> THEN Zero
                    ELSE FMul(FSum(r, 1, Len(h)), <<1, Len(h)>>)

\* Holdings A and B, A doubles and B is flat: the return is 0.5.
C4_Witness ==
    /\ Done
    /\ \E p \in Rows :
         /\ p > 1
         /\ Len(df.holdings[p]) = 2
         /\ Range(df.holdings[p]) = {"A", "B"}
         /\ prices.data["A"][p] = FMul(<<2, 1>>, prices.data["A"][p - 1])
         /\ prices.data["B"][p] = prices.data["B"][p - 1]
         /\ ~IsNaN(prices.data["A"][p]) /\ ~IsNaN(prices.data["B"][p])
         /\ df.portfolio_return[p] = <<1, 2>>

DrawdownNonPositiveWithTickers ==
    (Done /\ Len(prices.columns) > 0) =>
        \A p \in Rows :
          /\ FLe(df.portfolio_drawdown[p], Zero)
          /\ FLe(df.benchmark_drawdown[p], Zero)
          /\ (\A q \in 1..p : FLe(df.cum_portfolio[q], df.cum_portfolio[p]))
               => df.portfolio_drawdown[p] = Zero
          /\ (\A q \in 1..p : FLe(df.cum_benchmark[q], df.cum_benchmark[p]))
               => df.benchmark_drawdown[p] = Zero

C7_SharpeNoneWhenConstant ==
    Done => /\ (\A p, q \in DOMAIN port_ret : port_ret[p] = port_ret[q])
                 => stats.sharpe = None
            /\ \A f \in DOMAIN stats : ~IsNaN(stats[f])

\* Nothing held on any of several dates: the returns are all 0, the run
\* returns and sharpe is None while the volatility is a number.
C7_Witness ==
    /\ Done
    /\ Len(port_ret) >= 2
    /\ Len(prices.columns) > 0
    /\ \A p \in DOMAIN port_ret : df.holdings[p] = <<>> /\ port_ret[p] = Zero
    /\ stats.sharpe = None
    /\ stats.annual_vol = Zero

\* The product of 1 + the simple return of ticker t over the rows a..b.
SegmentGrowth(t, a, b) ==
    FProd([p \in Rows |-> FAdd(One, SimpleRet(t, p))], a, b)

\* Tickers A, B, C, monthly, top_n = 1, three resolved rebalance dates that
\* select A, then B, then C.
Scenario(r1, r2, r3) ==
    /\ Done
    /\ Range(prices.columns) = {"A", "B", "C"}
    /\ rebalance = "M"
    /\ top_n = 1
    /\ Keys = {r1, r2, r3}
    /\ r1 < r2 /\ r2 < r3
    /\ holdings_map[r1] = <<"A">>
    /\ holdings_map[r2] = <<"B">>
    /\ holdings_map[r3] = <<"C">>

\* C8 as stated: in the scenario the holdings are a run of [A], of [B] and
\* of [C] that covers every trading date and switches at the resolved
\* dates, and final_cum_return is the product of the held ticker's returns
\* over the three runs.
C8_ThreeRunsCoverEveryDate ==
    \A r1, r2, r3 \in Keys :
      Scenario(r1, r2, r3) =>
        /\ \A p \in Rows :
             df.holdings[p] = IF Index[p] < r2 THEN <<"A">>
                              ELSE IF Index[p] < r3 THEN <<"B">>
                              ELSE <<"C">>
        /\ stats.final_cum_return =
             FMul(SegmentGrowth("A", 1, RowOf(r2) - 1),
                  FMul(SegmentGrowth("B", RowOf(r2), RowOf(r3) - 1),
                       SegmentGrowth("C", RowOf(r3), Len(Index))))

\* C8 as amended: in the scenario the holdings are empty before the first
\* resolved date, [A] from it, [B] from the second and [C] from the third,
\* and final_cum_return is the product of the held ticker's returns over
\* the three runs (the dates before the first resolved date add nothing).
C8_ThreeRunsFromFirstRebalance ==
    \A r1, r2, r3 \in Keys :
      Scenario(r1, r2, r3) =>
        /\ \A p \in Rows :
             df.holdings[p] = IF Index[p] < r1 THEN <<>>
                              ELSE IF Index[p] < r2 THEN <<"A">>
                              ELSE IF Index[p] < r3 THEN <<"B">>
                              ELSE <<"C">>
        /\ stats.final_cum_return =
             FMul(SegmentGrowth("A", RowOf(r1), RowOf(r2) - 1),
                  FMul(SegmentGrowth("B", RowOf(r2), RowOf(r3) - 1),
                       SegmentGrowth("C", RowOf(r3), Len(Index))))

\* The scenario with a run of several dates whose returns compound.
C8_Witness ==
    \E r1, r2, r3 \in Keys :
      /\ Scenario(r1, r2, r3)
      /\ RowOf(r2) - RowOf(r1) >= 2
      /\ SegmentGrowth("A", RowOf(r1), RowOf(r2) - 1) = <<2, 1>>
      /\ stats.final_cum_return = <<4, 1>>

\* C9: the holdings of a trading date are the selection stored for the
\* latest resolved rebalance date at or before it; with none, they are
\* empty and the portfolio return is 0.  Every trading date has holdings.
C9_HoldingsAreLatestSelection ==
    Done =>
      /\ DOMAIN df.holdings = Rows
      /\ \A p \in Rows :
           LET R == {r \in Keys : r <= Index[p]}
           IN  /\ df.holdings[p] # Unset
               /\ R # {} =>
                    \E r \in R : /\ \A x \in R : x <= r
                                 /\ df.holdings[p] = holdings_map[r]
               /\ R = {} => /\ df.holdings[p] = <<>>
                            /\ df.portfolio_return[p] = Zero

\* Dates before the first rebalance date, then two different selections.
C9_Witness ==
    /\ Done
    /\ \E p, q, w \in Rows :
         /\ p < q /\ q < w
         /\ \A r \in Keys : Index[p] < r
         /\ df.holdings[q] # <<>>
         /\ df.holdings[w] # <<>>
         /\ df.holdings[w] # df.holdings[q]
         /\ df.portfolio_return[w] # Zero

\* C10: every resolved rebalance date is a date of the index, the nearest
\* at or before a label the loop has been through; every such label with a
\* trading date at or before it resolves to one, and labels that resolve to
\* the same date add one key.
C10_ResolvedAtOrBefore ==
    LET AtOrBefore(j) == {x \in Range(Index) : x <= rebal_dates[j]}
    IN  /\ \A e \in Keys :
             /\ e \in Range(Index)
             /\ \E j \in Processed :
                  e \in AtOrBefore(j) /\ \A x \in AtOrBefore(j) : x <= e
        /\ \A j \in Processed :
             AtOrBefore(j) # {} =>
               \E e \in Keys : e \in AtOrBefore(j) /\ \A x \in AtOrBefore(j) : x <= e
        /\ Cardinality(Keys) <= Cardinality(Processed)

\* A label that is no trading date resolves to an earlier date, and two
\* labels resolve to one date.
C10_Witness ==
    /\ Done
    /\ \E j \in DOMAIN rebal_dates : rebal_dates[j] \notin Range(Index)
    /\ Cardinality(Keys) < Len(rebal_dates)
    /\ Cardinality(Keys) >= 2

\* Under "M" and "Q" the labels are period ends, none earlier than the
\* first trading date: no label is skipped (line 37 is never reached).
EveryLabelResolves ==
    \A j \in DOMAIN rebal_dates : d_eff(Index, rebal_dates[j]) # 0

====
